---- MODULE Spec2Model ----
(***************************************************************************)
(* A model of the to-do list server of src/index.js: five express routes   *)
(* over two mongoose collections, Item (src/models/itemSchema.js) and List *)
(* (src/unnamed/part_000).  Every await on a store call is a step of its   *)
(* own, so that requests handled concurrently interleave at exactly the    *)
(* points where the node event loop lets them.                             *)
(*                                                                         *)
(* Strings are sequences of one-character strings, so that trim and        *)
(* capitalize are computed, not assumed.                                   *)
(***************************************************************************)
EXTENDS Integers, Sequences, FiniteSets, TLC

(* ------------------------------ bounds --------------------------------- *)

\* The number of requests a run admits.
MaxRequests == 3

\* The number of requests the server holds at a time: those that wait on a
\* store call, and the one that arrives.
MaxInflight == 2

(* ------------------------------ strings -------------------------------- *)

LowerChars ==
  <<"a","b","c","d","e","f","g","h","i","j","k","l","m","n","o","p","q","r","s","t","u","v","w","x","y","z">>

UpperChars ==
  <<"A","B","C","D","E","F","G","H","I","J","K","L","M","N","O","P","Q","R","S","T","U","V","W","X","Y","Z">>

SetMin(S) == CHOOSE x \in S : \A y \in S : x <= y

SetMax(S) == CHOOSE x \in S : \A y \in S : y <= x

toUpperChar(c) ==
  IF \E i \in DOMAIN LowerChars : LowerChars[i] = c
  THEN UpperChars[CHOOSE i \in DOMAIN LowerChars : LowerChars[i] = c]
  ELSE c

toLowerChar(c) ==
  IF \E i \in DOMAIN UpperChars : UpperChars[i] = c
  THEN LowerChars[CHOOSE i \in DOMAIN UpperChars : UpperChars[i] = c]
  ELSE c

toLowerCase(s) == [i \in 1..Len(s) |-> toLowerChar(s[i])]

upperFirst(s) == [i \in 1..Len(s) |-> IF i = 1 THEN toUpperChar(s[i]) ELSE s[i]]

\* A plausible slip: the segment is used as the name without normalising it.
capitalizeIdentity(s) == s

\* lodash _.capitalize: first character to upper case, the rest to lower case.
capitalize(s) == upperFirst(toLowerCase(s))

IsSpace(c) == c \in {" ", "\t", "\n"}

\* String.prototype.trim
trim(s) ==
  LET keep == {i \in 1..Len(s) : ~IsSpace(s[i])}
  IN  IF keep = {} THEN <<>> ELSE SubSeq(s, SetMin(keep), SetMax(keep))

(* --------------------------- request values ---------------------------- *)

\* A field of req.body: absent, a string, or (bodyParser extended: true) an array.
Undefined == [t |-> "undefined", s |-> <<>>]

StrV(s) == [t |-> "string", s |-> s]

ArrV == [t |-> "object", s |-> <<>>]

\* !v
Falsy(v) == v.t = "undefined" \/ (v.t = "string" /\ v.s = <<>>)

\* A plausible slip: the blank test without the trim.
InvalidFieldNoTrim(v) == Falsy(v) \/ v.t # "string"

\* !v || typeof v !== 'string' || v.trim().length === 0
InvalidField(v) == Falsy(v) \/ v.t # "string" \/ Len(trim(v.s)) = 0

(* ------------------------------ constants ------------------------------ *)

Name1 ==
  <<"W","e","l","c","o","m","e"," ","t","o"," ","y","o","u","r"," ","t","o","d","o","l","i","s","t","!">>

Name2 ==
  <<"H","i","t"," ","t","h","e"," ","+"," ","t","o"," ","a","d","d"," ","a"," ","n","e","w"," ","i","t","e","m">>

Name3 ==
  <<"<","-","-"," ","H","i","t"," ","t","h","i","s"," ","t","o"," ","d","e","l","e","t","e"," ","a","n"," ","i","t","e","m">>

\* getLocalDate() on the day of the run: weekday, month and day in en-US.
getLocalDate == <<"F","r","i","d","a","y",","," ","N","o","v","e","m","b","e","r"," ","6">>

NewItem(id, name) == [_id |-> id, name |-> name]

\* A plausible slip: the second and third placeholder swapped.
defaultItemsSwapped(base) ==
  << NewItem(base, Name1), NewItem(base + 1, Name3), NewItem(base + 2, Name2) >>

\* item1, item2, item3 of createDefaultItems, with the ObjectIds base..base+2.
defaultItems(base) ==
  << NewItem(base, Name1), NewItem(base + 1, Name2), NewItem(base + 2, Name3) >>

(* ------------------------------- inputs -------------------------------- *)

\* Path segments of GET /:customNewList.
Segments == { <<"a","b">>, <<"A","b">>, <<"a","B">>, <<"c">> }

\* List names a form can post: today's title, stored names, unnormalised names.
ListNames == { getLocalDate, <<"A","b">>, <<"a","b">>, <<"C">> }

\* Values of newItem and list in POST /.
NewItemValues == { Undefined, ArrV, StrV(<<>>), StrV(<<" ">>), StrV(<<" ","x">>) }

ListValues == { Undefined, StrV(<<" ">>) } \cup { StrV(n) : n \in ListNames }

\* Values of updatedItemTitle in POST /edit.
TitleValues == { Undefined, StrV(<<"y">>) }

\* An ObjectId that no `new Item` of the run draws: the runs up to startup
\* draw six at most, and a request three at most.
UnknownId == 3 * MaxRequests + 7

(* ------------------------------- state --------------------------------- *)

VARIABLES
  items,     \* the items collection, in insertion order
  lists,     \* the lists collection, in insertion order
  nextId,    \* the next ObjectId `new Item` draws
  inflight,  \* the requests that wait on a store call but the first of their handler
  last,      \* the response sent last
  arrived    \* the number of requests admitted so far

vars == <<items, lists, nextId, inflight, last, arrived>>

\* A request in flight: where it resumes and the handler's local variables.
Request(rid, pc, route, segment, name, seed, doc, item) ==
  [rid |-> rid, pc |-> pc, route |-> route, segment |-> segment, name |-> name,
   defaultItems |-> seed, doc |-> doc, item |-> item]

NoItem == NewItem(0, <<>>)

\* A response, with the request line it answers.
NoResponse == [req |-> "", path |-> <<>>, status |-> 0, kind |-> "none", to |-> <<>>,
               title |-> <<>>, items |-> <<>>, body |-> ""]

\* res.render('list', { currentTitle, newListItems })
Render(req, path, title, its) ==
  [req |-> req, path |-> path, status |-> 200, kind |-> "render", to |-> <<>>,
   title |-> title, items |-> its, body |-> ""]

\* res.redirect(to)
Redirect(req, path, to) ==
  [req |-> req, path |-> path, status |-> 302, kind |-> "redirect", to |-> to,
   title |-> <<>>, items |-> <<>>, body |-> ""]

\* res.status(status).send(body)
Send(req, path, status, body) ==
  [req |-> req, path |-> path, status |-> status, kind |-> "send", to |-> <<>>,
   title |-> <<>>, items |-> <<>>, body |-> body]

AllIdle == inflight = {}

Ids(its) == { its[i]._id : i \in DOMAIN its }

Names(its) == [i \in DOMAIN its |-> its[i].name]

TypeOK ==
  /\ nextId \in 4..UnknownId
  /\ arrived \in 0..MaxRequests
  /\ Cardinality(inflight) <= MaxInflight
  /\ \A i \in DOMAIN items : items[i]._id \in 1..(nextId - 1)
  /\ \A r \in inflight : r.pc \in {"seed_find", "seed_insert", "upsert", "save"}

\* The server is listening: the startup block has connected and has run
\* createDefaultItems.  The database outlives the process: it was empty, and
\* startup has seeded it, or an earlier run had seeded it and had left one
\* item, and startup's three items were built and dropped.
Init ==
  /\ \/ items = defaultItems(1) /\ nextId = 4
     \/ items = << defaultItems(1)[1] >> /\ nextId = 7
  /\ lists = <<>>
  /\ inflight = {}
  /\ last = NoResponse
  /\ arrived = 0

(* --------------------------- store operations -------------------------- *)

\* The first of the positions at which the documents match a filter, 0 if
\* there is none.
First(matches) == IF matches = {} THEN 0 ELSE SetMin(matches)

RemoveAt(docs, k) == SubSeq(docs, 1, k - 1) \o SubSeq(docs, k + 1, Len(docs))

\* existingItems.length === 0
ShouldSeed(existingItems) == Len(existingItems) = 0

\* Item.insertMany(docs)
insertMany(its, docs) == its \o docs

\* A plausible slip: the name is trimmed before it is stored.
saveItemTrimmed(its, item) == Append(its, [item EXCEPT !.name = trim(item.name)])

\* item.save() of a new Item
saveItem(its, item) == Append(its, item)

\* Item.findByIdAndUpdate(id, { name })
ItemFindByIdAndUpdate(its, id, name) ==
  LET k == First({i \in DOMAIN its : its[i]._id = id})
  IN  IF k = 0 THEN its ELSE [its EXCEPT ![k].name = name]

\* Item.findByIdAndDelete(id)
ItemFindByIdAndDelete(its, id) ==
  LET k == First({i \in DOMAIN its : its[i]._id = id})
  IN  IF k = 0 THEN its ELSE RemoveAt(its, k)

\* List.findOne({ name }): the position of the document, 0 for null.
ListFindOne(ls, name) == First({i \in DOMAIN ls : ls[i].name = name})

\* A plausible slip: an insert where an upsert was meant.
ListInsertAlways(ls, name, seed) == Append(ls, [name |-> name, items |-> seed])

\* A plausible slip: $set where $setOnInsert was meant.
ListUpsertOverwrites(ls, name, seed) ==
  LET k == ListFindOne(ls, name)
  IN  IF k = 0
      THEN Append(ls, [name |-> name, items |-> seed])
      ELSE [ls EXCEPT ![k].items = seed]

\* List.findOneAndUpdate({ name }, { $setOnInsert: { name, items } }, { upsert: true })
ListUpsert(ls, name, seed) ==
  IF ListFindOne(ls, name) = 0
  THEN Append(ls, [name |-> name, items |-> seed])
  ELSE ls

\* A plausible slip: the filter on the list name is left out.
ListSetItemNameAnyList(ls, name, id, new) ==
  LET k == First({i \in DOMAIN ls : id \in Ids(ls[i].items)})
  IN  IF k = 0
      THEN ls
      ELSE LET p == First({i \in DOMAIN ls[k].items : ls[k].items[i]._id = id})
           IN  [ls EXCEPT ![k].items[p].name = new]

\* List.findOneAndUpdate({ name, 'items._id': id }, { $set: { 'items.$.name': new } })
ListSetItemName(ls, name, id, new) ==
  LET k == First({i \in DOMAIN ls : ls[i].name = name /\ id \in Ids(ls[i].items)})
  IN  IF k = 0
      THEN ls
      ELSE LET p == First({i \in DOMAIN ls[k].items : ls[k].items[i]._id = id})
           IN  [ls EXCEPT ![k].items[p].name = new]

\* A plausible slip: $pop where $pull was meant.
ListPopItem(ls, name, id) ==
  LET k == ListFindOne(ls, name)
  IN  IF k = 0 \/ ls[k].items = <<>>
      THEN ls
      ELSE [ls EXCEPT ![k].items = SubSeq(@, 1, Len(@) - 1)]

\* List.findOneAndUpdate({ name }, { $pull: { items: { _id: id } } })
ListPullItem(ls, name, id) ==
  LET k == ListFindOne(ls, name)
  IN  IF k = 0
      THEN ls
      ELSE [ls EXCEPT ![k].items = SelectSeq(@, LAMBDA e : e._id # id)]

\* foundList.items.push(item); foundList.save(): a $push on the document.
ListPushItem(ls, k, item) == [ls EXCEPT ![k].items = Append(@, item)]

(* ------------------------------- routes -------------------------------- *)

Path(name) == <<"/">> \o name

Root == Path(<<>>)

EditPath == Path(<<"e","d","i","t">>)

DeletePath == Path(<<"d","e","l","e","t","e">>)

\* A request arrives: the run admits it, and the event loop has room for it.
Admit ==
  /\ arrived < MaxRequests
  /\ Cardinality(inflight) < MaxInflight
  /\ arrived' = arrived + 1

\* createDefaultItems up to its await on Item.find(): the three items are
\* built and the collection is read; the insert, when due, is a later step.
\* `others` are the other requests in flight, rid the number of this one.
CreateDefaultItemsFind(others, rid, route, segment, name) ==
  /\ nextId' = nextId + 3
  /\ UNCHANGED <<items, lists>>
  /\ IF ShouldSeed(items)
     THEN /\ inflight' = others \cup
               {Request(rid, "seed_insert", route, segment, name, defaultItems(nextId), 0, NoItem)}
          /\ UNCHANGED last
     ELSE IF route = "root"
     THEN /\ inflight' = others
          /\ last' = Redirect("GET", Root, Root)
     ELSE /\ inflight' = others \cup
               {Request(rid, "upsert", route, segment, name, defaultItems(nextId), 0, NoItem)}
          /\ UNCHANGED last

\* GET /: Item.find({}), then the render, or the call of the seeder.
GetRoot ==
  /\ Admit
  /\ UNCHANGED <<items, lists, nextId>>
  /\ IF Len(items) = 0
     THEN /\ inflight' = inflight \cup
               {Request(arrived, "seed_find", "root", <<>>, <<>>, <<>>, 0, NoItem)}
          /\ UNCHANGED last
     ELSE /\ last' = Render("GET", Root, getLocalDate, items)
          /\ UNCHANGED inflight

\* GET /, in createDefaultItems.
RootSeedFind(r) ==
  /\ r.pc = "seed_find"
  /\ CreateDefaultItemsFind(inflight \ {r}, r.rid, "root", <<>>, <<>>)
  /\ UNCHANGED arrived

\* GET /:customNewList up to the seeder's Item.find().
GetCustom(segment) ==
  /\ Admit
  /\ CreateDefaultItemsFind(inflight, arrived, "custom", segment, capitalize(segment))

\* Item.insertMany(defaultItems), and what the caller does with the result.
SeedInsert(r) ==
  /\ r.pc = "seed_insert"
  /\ items' = insertMany(items, r.defaultItems)
  /\ UNCHANGED <<lists, nextId, arrived>>
  /\ IF r.route = "root"
     THEN /\ inflight' = inflight \ {r}
          /\ last' = Redirect("GET", Root, Root)
     ELSE /\ inflight' = (inflight \ {r}) \cup {[r EXCEPT !.pc = "upsert"]}
          /\ UNCHANGED last

\* GET /:customNewList: the find-or-create and the render of its result.
CustomUpsert(r) ==
  /\ r.pc = "upsert"
  /\ lists' = ListUpsert(lists, r.name, r.defaultItems)
  /\ LET foundList == lists'[ListFindOne(lists', r.name)]
     IN  last' = Render("GET", Path(r.segment), foundList.name, foundList.items)
  /\ inflight' = inflight \ {r}
  /\ UNCHANGED <<items, nextId, arrived>>

\* POST /: the validation, then item.save() or List.findOne().
PostAdd(newItem, list) ==
  /\ Admit
  /\ IF InvalidField(newItem)
     THEN /\ last' = Send("POST", Root, 400, "Item name must be a non-empty string")
          /\ UNCHANGED <<items, lists, nextId, inflight>>
     ELSE IF InvalidField(list)
     THEN /\ last' = Send("POST", Root, 400, "List name must be a non-empty string")
          /\ UNCHANGED <<items, lists, nextId, inflight>>
     ELSE /\ nextId' = nextId + 1
          /\ LET item == NewItem(nextId, newItem.s)
             IN  IF list.s = getLocalDate
                 THEN /\ items' = saveItem(items, item)
                      /\ last' = Redirect("POST", Root, Root)
                      /\ UNCHANGED <<lists, inflight>>
                 ELSE IF ListFindOne(lists, list.s) = 0
                 THEN /\ last' = Send("POST", Root, 400, "List not found!")
                      /\ UNCHANGED <<items, lists, inflight>>
                 ELSE /\ inflight' = inflight \cup
                           {Request(arrived, "save", "add", <<>>, list.s, <<>>,
                                    ListFindOne(lists, list.s), item)}
                      /\ UNCHANGED <<items, lists, last>>

\* POST /: foundList.save() and the redirect.
AddSave(r) ==
  /\ r.pc = "save"
  /\ lists' = ListPushItem(lists, r.doc, r.item)
  /\ last' = Redirect("POST", Root, Path(r.name))
  /\ inflight' = inflight \ {r}
  /\ UNCHANGED <<items, nextId, arrived>>

\* A plausible slip: the edit is applied to the items collection and to the
\* named list alike, as if a list held references to the items.
PostEditBoth(id, title, listName) ==
  /\ Admit
  /\ UNCHANGED <<nextId, inflight>>
  /\ IF id = 0 \/ Falsy(title)
     THEN /\ last' = Send("POST", EditPath, 400, "Missing updated item ID or title")
          /\ UNCHANGED <<items, lists>>
     ELSE /\ items' = ItemFindByIdAndUpdate(items, id, title.s)
          /\ lists' = ListSetItemName(lists, listName, id, title.s)
          /\ last' = Redirect("POST", EditPath,
                               IF listName = getLocalDate THEN Root ELSE Path(listName))

\* POST /edit.  id 0 stands for a missing or empty updatedItemId.
PostEdit(id, title, listName) ==
  /\ Admit
  /\ UNCHANGED <<nextId, inflight>>
  /\ IF id = 0 \/ Falsy(title)
     THEN /\ last' = Send("POST", EditPath, 400, "Missing updated item ID or title")
          /\ UNCHANGED <<items, lists>>
     ELSE IF listName = getLocalDate
     THEN /\ items' = ItemFindByIdAndUpdate(items, id, title.s)
          /\ last' = Redirect("POST", EditPath, Root)
          /\ UNCHANGED lists
     ELSE /\ lists' = ListSetItemName(lists, listName, id, title.s)
          /\ last' = Redirect("POST", EditPath, Path(listName))
          /\ UNCHANGED items

\* POST /delete.
PostDelete(listName, id) ==
  /\ Admit
  /\ UNCHANGED <<nextId, inflight>>
  /\ IF listName = getLocalDate
     THEN /\ items' = ItemFindByIdAndDelete(items, id)
          /\ last' = Redirect("POST", DeletePath, Root)
          /\ UNCHANGED lists
     ELSE /\ lists' = ListPullItem(lists, listName, id)
          /\ last' = Redirect("POST", DeletePath, Path(listName))
          /\ UNCHANGED items

(* ---------------------------- specifications --------------------------- *)

\* The ids a request can carry: those of the stored items, which the pages
\* show, and one that no item has.
KnownIds ==
  Ids(items) \cup UNION { Ids(lists[k].items) : k \in DOMAIN lists } \cup {UnknownId}

\* Requests are handled concurrently: a request may arrive, and any request in
\* flight may resume, at every step.
Next ==
  \/ GetRoot
  \/ \E segment \in Segments : GetCustom(segment)
  \/ \E newItem \in NewItemValues, list \in ListValues : PostAdd(newItem, list)
  \/ \E id \in KnownIds \cup {0}, title \in TitleValues, listName \in ListNames :
        PostEdit(id, title, listName)
  \/ \E listName \in ListNames, id \in KnownIds : PostDelete(listName, id)
  \/ \E r \in inflight : RootSeedFind(r)
  \/ \E r \in inflight : SeedInsert(r)
  \/ \E r \in inflight : CustomUpsert(r)
  \/ \E r \in inflight : AddSave(r)

Spec == Init /\ [][Next]_vars

\* Requests are handled one at a time: none arrives while one is in flight.
NextSeq ==
  \/ AllIdle /\ GetRoot
  \/ \E segment \in Segments : AllIdle /\ GetCustom(segment)
  \/ \E newItem \in NewItemValues, list \in ListValues : AllIdle /\ PostAdd(newItem, list)
  \/ \E id \in KnownIds \cup {0}, title \in TitleValues, listName \in ListNames :
        AllIdle /\ PostEdit(id, title, listName)
  \/ \E listName \in ListNames, id \in KnownIds : AllIdle /\ PostDelete(listName, id)
  \/ \E r \in inflight : RootSeedFind(r)
  \/ \E r \in inflight : SeedInsert(r)
  \/ \E r \in inflight : CustomUpsert(r)
  \/ \E r \in inflight : AddSave(r)

SpecSeq == Init /\ [][NextSeq]_vars

(* -------------------------- what a fetch shows ------------------------- *)

\* The items the page of a list shows to a request that is handled alone in
\* a state with the collections its and ls: GET / for today's title (after
\* the redirect, when the collection was empty and has been seeded), GET
\* /<listName> for any other name.  base is the next ObjectId.
Fetched(its, ls, listName, base) ==
  IF listName = getLocalDate
  THEN IF Len(its) = 0 THEN insertMany(its, defaultItems(base)) ELSE its
  ELSE LET name  == capitalize(listName)
           found == ListUpsert(ls, name, defaultItems(base))
       IN  found[ListFindOne(found, name)].items

(* ------------------------------- claims -------------------------------- *)

DefaultNames == <<Name1, Name2, Name3>>

\* The value is a string with a character that is not white space.
NonBlank(v) == v.t = "string" /\ \E i \in DOMAIN v.s : ~IsSpace(v.s[i])

\* The value is missing, or a string of white space only (the empty one too).
BlankOrMissing(v) ==
  v.t = "undefined" \/ (v.t = "string" /\ \A i \in DOMAIN v.s : IsSpace(v.s[i]))

\* Two strings that differ at most in the letter case of their first character.
SameButFirstCase(p, q) ==
  /\ Len(p) = Len(q)
  /\ Len(p) >= 1
  /\ toLowerChar(p[1]) = toLowerChar(q[1])
  /\ \A i \in 2..Len(p) : p[i] = q[i]

\* after is before, but that the items with the id carry the name new.
SameExceptName(before, after, id, new) ==
  /\ Len(after) = Len(before)
  /\ \A i \in DOMAIN before :
        /\ after[i]._id = before[i]._id
        /\ after[i].name = IF before[i]._id = id THEN new ELSE before[i].name

\* its without the items that carry the id, the others in their order.
Without(its, id) == SelectSeq(its, LAMBDA e : e._id # id)

\* Where POST /edit and POST /delete redirect to for a list name.
Target(listName) == IF listName = getLocalDate THEN Root ELSE Path(listName)

\* What every step of a route shows, whatever the rest of the input: a
\* request is admitted, and it is answered on the route's path (with an error
\* or with the redirect for the list name) or, for POST /, put in flight.
\* Each is implied by the route's action; the formulas below test it before
\* they try the inputs one by one.
IsAdd ==
  /\ arrived' = arrived + 1
  /\ \/ last'.req = "POST" /\ last'.path = Root
     \/ \E q \in inflight' : q.rid = arrived /\ q.route = "add"

IsEdit(listName) ==
  /\ arrived' = arrived + 1
  /\ last'.path = EditPath
  /\ last'.kind = "send" \/ last'.to = Target(listName)

IsDelete(listName) ==
  /\ arrived' = arrived + 1
  /\ last'.path = DeletePath
  /\ last'.to = Target(listName)

\* C1: with requests handled one at a time, a GET / that finds the items
\* collection empty goes on to insert, inserts exactly the three placeholders
\* and redirects to /; the GET / that follows that redirect renders exactly
\* those three; a GET / that finds the collection non-empty inserts nothing
\* and starts no seeder.
C1_SeedOnceThenShow ==
  [][ /\ \A r \in inflight :
            RootSeedFind(r) => \E q \in inflight' : q.rid = r.rid /\ q.pc = "seed_insert"
      /\ \A r \in inflight :
            (r.route = "root" /\ SeedInsert(r)) =>
               /\ Len(items) = 0
               /\ Len(items') = 3
               /\ Names(items') = DefaultNames
               /\ last'.kind = "redirect"
               /\ last'.to = Root
      /\ (GetRoot /\ last.req = "GET" /\ last.path = Root /\ last.kind = "redirect") =>
               /\ last'.kind = "render"
               /\ last'.items = items
               /\ Len(items) = 3
               /\ Names(items) = DefaultNames
      /\ (GetRoot /\ Len(items) # 0) =>
               /\ items' = items
               /\ inflight' = inflight
               /\ nextId' = nextId
    ]_vars

\* Three requests, no list: the one item was deleted, a GET / has seeded the
\* collection with three items built after startup, a GET / has rendered them.
C1_Witness ==
  /\ arrived = 3
  /\ inflight = {}
  /\ lists = <<>>
  /\ last.req = "GET" /\ last.path = Root /\ last.kind = "render"
  /\ Len(last.items) = 3
  /\ Names(last.items) = DefaultNames
  /\ last.items[1]._id >= 7
  /\ last.items = items

\* C2: in every reachable state, the lists collection holds at most one List
\* document per name.
C2_OneListPerName ==
  \A i, j \in DOMAIN lists : lists[i].name = lists[j].name => i = j

\* Two GET /:name requests for one name were in flight together and are both
\* answered: the one list is the work of the request that arrived second, so
\* the first did its upsert after it, and there is still one list.
C2_Witness ==
  /\ arrived = 2
  /\ inflight = {}
  /\ Len(lists) = 1
  /\ \E base \in {4, 7} : nextId = base + 6 /\ lists[1].items = defaultItems(base + 3)

\* C3: when GET /:name resolves a segment q and a list is stored under the
\* name that a GET of a segment p stores, p and q differing at most in the
\* case of the first character, the request creates no list and renders the
\* name and the items of that list.
C3_SameListForEitherCase ==
  [][ \A r \in inflight : CustomUpsert(r) =>
        \A p \in Segments : SameButFirstCase(p, r.segment) =>
          \A k \in DOMAIN lists : lists[k].name = capitalize(p) =>
             /\ lists' = lists
             /\ last'.kind = "render"
             /\ last'.title = lists[k].name
             /\ last'.items = lists[k].items
    ]_vars

\* Two GET /:name requests, the second of them GET /Ab, have found one list:
\* the page shows the items that the first request built.
C3_Witness ==
  /\ arrived = 2
  /\ inflight = {}
  /\ Len(lists) = 1
  /\ last.kind = "render"
  /\ last.path = Path(<<"A","b">>)
  /\ last.title = <<"A","b">>
  /\ \E base \in {4, 7} : nextId = base + 6 /\ last.items = defaultItems(base)

\* C4: a POST / with a non-blank newItem and list equal to today's date
\* string appends one item, which carries the submitted name, to the items
\* collection, leaves the lists collection as it is and redirects to /.
C4_AddToToday ==
  [][ IsAdd => \A newItem \in NewItemValues, list \in ListValues :
        (NonBlank(newItem) /\ list = StrV(getLocalDate) /\ PostAdd(newItem, list)) =>
           /\ Len(items') = Len(items) + 1
           /\ SubSeq(items', 1, Len(items)) = items
           /\ items'[Len(items')].name = newItem.s
           /\ lists' = lists
           /\ last'.kind = "redirect"
           /\ last'.to = Root
    ]_vars

\* An item with the submitted name, white space and all, is in the items
\* collection, and POST / has redirected to /.
C4_Witness ==
  /\ \E i \in DOMAIN items : items[i].name = <<" ","x">>
  /\ last.req = "POST" /\ last.path = Root
  /\ last.kind = "redirect" /\ last.to = Root

C6_EditChangesOneName ==
  [][ \A listName \in ListNames : IsEdit(listName) =>
      \A title \in TitleValues : ~Falsy(title) =>
      \A id \in KnownIds :
        PostEdit(id, title, listName) =>
           /\ last'.kind = "redirect"
           /\ last'.to = Target(listName)
           /\ IF listName = getLocalDate
              THEN /\ lists' = lists
                   /\ SameExceptName(items, items', id, title.s)
              ELSE /\ items' = items
                   /\ Len(lists') = Len(lists)
                   /\ \A k \in DOMAIN lists :
                         IF lists[k].name = listName
                         THEN /\ lists'[k].name = lists[k].name
                              /\ SameExceptName(lists[k].items, lists'[k].items, id, title.s)
                         ELSE lists'[k] = lists[k]
    ]_vars

\* Two lists are stored, an item of one of them carries the new name, and
\* POST /edit has redirected to that list.
C6_Witness ==
  /\ Len(lists) = 2
  /\ last.path = EditPath /\ last.kind = "redirect"
  /\ \E k \in DOMAIN lists :
        /\ last.to = Path(lists[k].name)
        /\ \E i \in DOMAIN lists[k].items : lists[k].items[i].name = <<"y">>

\* C7 as stated: after a POST /delete with a list name and an id, the fetch
\* of the list (GET / for today's, GET /<listName> for any other) shows no
\* item with the id.
C7_AsStated ==
  [][ \A listName \in ListNames : IsDelete(listName) =>
      \A id \in KnownIds : PostDelete(listName, id) =>
        id \notin Ids(Fetched(items', lists', listName, nextId'))
    ]_vars

\* C7 as amended: a POST /delete is answered with a redirect; the list it
\* names holds its items without those with the id, in their order, and all
\* else is as it was; and the fetch of the list shows no item with the id
\* when the name is today's date string or a name in the form the lists are
\* stored under (capitalize leaves it as it is).
C7_DeleteThenFetch ==
  [][ \A listName \in ListNames : IsDelete(listName) =>
      \A id \in KnownIds : PostDelete(listName, id) =>
        /\ last'.kind = "redirect"
        /\ last'.to = Target(listName)
        /\ IF listName = getLocalDate
           THEN /\ items' = Without(items, id)
                /\ lists' = lists
           ELSE /\ items' = items
                /\ Len(lists') = Len(lists)
                /\ \A k \in DOMAIN lists :
                      lists'[k] = IF lists[k].name = listName
                                  THEN [lists[k] EXCEPT !.items = Without(@, id)]
                                  ELSE lists[k]
        /\ (listName = getLocalDate \/ capitalize(listName) = listName) =>
              /\ id \notin Ids(Fetched(items', lists', listName, nextId'))
              /\ listName # getLocalDate =>
                    \A k \in DOMAIN lists : lists[k].name = listName =>
                       Fetched(items', lists', listName, nextId') = Without(lists[k].items, id)
    ]_vars

\* POST /delete has redirected to a stored list that has lost one of its
\* three items.
C7_Witness ==
  /\ last.path = DeletePath /\ last.kind = "redirect"
  /\ \E k \in DOMAIN lists :
        /\ last.to = Path(lists[k].name)
        /\ Len(lists[k].items) = 2

\* C8: a POST /edit that names a custom list leaves the items collection as
\* it is, and a POST /edit that names today's list leaves the lists
\* collection as it is: a step that answers POST /edit for a list name keeps
\* that collection, or it is no step of POST /edit for that name.
C8_EmbeddedItemsAreCopies ==
  [][ \A listName \in ListNames : IsEdit(listName) =>
        \/ /\ listName # getLocalDate => items' = items
           /\ listName = getLocalDate => lists' = lists
        \/ \A id \in KnownIds \cup {0}, title \in TitleValues :
              ~PostEdit(id, title, listName)
    ]_vars

\* An item of a list and an item of the items collection carry one id and
\* two names: POST /edit has renamed one of them.
C8_Witness ==
  /\ last.path = EditPath /\ last.kind = "redirect"
  /\ \E k \in DOMAIN lists : \E i \in DOMAIN lists[k].items : \E j \in DOMAIN items :
        /\ lists[k].items[i]._id = items[j]._id
        /\ lists[k].items[i].name # items[j].name

\* C9: the seeder inserts the three placeholders into the items collection
\* only when that collection is empty.
C9_SeederInsertsOnlyIntoEmpty ==
  [][ \A r \in inflight : SeedInsert(r) => Len(items) = 0 ]_vars

\* C10: the find-or-create of GET /:name looks for the normalised name and
\* leaves the items collection alone; when a list with the name is stored it
\* leaves the lists collection as it is and renders the name and the items of
\* that list; when none is, it appends one list with the name, whose items
\* are the three placeholders in their order, and renders it.
C10_FindOrCreateNeverOverwrites ==
  [][ \A r \in inflight : CustomUpsert(r) =>
        /\ r.name = capitalize(r.segment)
        /\ items' = items
        /\ last'.kind = "render"
        /\ IF \E k \in DOMAIN lists : lists[k].name = r.name
           THEN /\ lists' = lists
                /\ \E k \in DOMAIN lists :
                      /\ lists[k].name = r.name
                      /\ last'.title = lists[k].name
                      /\ last'.items = lists[k].items
           ELSE /\ Len(lists') = Len(lists) + 1
                /\ SubSeq(lists', 1, Len(lists)) = lists
                /\ lists'[Len(lists')].name = r.name
                /\ Len(lists'[Len(lists')].items) = 3
                /\ Names(lists'[Len(lists')].items) = DefaultNames
                /\ last'.title = r.name
                /\ last'.items = lists'[Len(lists')].items
    ]_vars

\* GET /:name has rendered a stored list whose items are no longer the
\* three placeholders: an earlier request has changed them.
C10_Witness ==
  /\ last.req = "GET" /\ last.kind = "render"
  /\ \E k \in DOMAIN lists :
        /\ last.title = lists[k].name
        /\ last.items = lists[k].items
        /\ Names(last.items) # DefaultNames

====
